---- MODULE Spec2Model ----
(***************************************************************************)
(* Model of packages/backend/app/main.py, the bootstrap of the DeWork API: *)
(* load_dotenv(), FastAPI(), the CORS middleware built from CORS_ORIGINS,  *)
(* the root route, and uvicorn.run() on BACKEND_PORT when the module is    *)
(* the main program.                                                       *)
(*                                                                         *)
(* Strings are sequences of one-character strings, so that splitting,      *)
(* stripping and integer parsing are computed character by character.      *)
(* An optional value (an environment variable, a header) is <<>> when      *)
(* absent and <<v>> when present.                                          *)
(***************************************************************************)
EXTENDS Integers, Sequences, FiniteSets, TLC

VARIABLES
    environ,        \* os.environ: CORS_ORIGINS and BACKEND_PORT, each optional
    dotenv,         \* the .env file load_dotenv() reads: same two keys
    runAsMain,      \* __name__ == "__main__"
    bindOK,         \* whether the OS grants a bind of an in-range port
    pc,             \* position in the module's top-level code
    steps,          \* the bootstrap statements executed so far, in order
    appCreated,     \* app = FastAPI(...) has run
    routes,         \* app.router.routes
    middleware,     \* app.user_middleware
    origins,        \* the module global `origins` (optional until line 12 ran)
    corsRead,       \* what os.getenv("CORS_ORIGINS", ...) returned at line 12
    portArg,        \* the port= argument computed at line 32 (optional)
    bindAttempts,   \* number of socket binds attempted by uvicorn.run
    listener,       \* the listening socket (optional): [host, port]
    openapiCached,  \* app.openapi_schema is no longer None
    request,        \* the request being answered (optional)
    response,       \* its response (optional)
    exitCause       \* why the process ended: "none", "ValueError", "bind", "signal"

vars == <<environ, dotenv, runAsMain, bindOK, pc, steps, appCreated, routes,
          middleware, origins, corsRead, portArg, bindAttempts, listener,
          openapiCached, request, response, exitCause>>

----------------------------------------------------------------------------
(* Bounds of the model *)

\* longest CORS_ORIGINS value enumerated character by character
MaxLen == 3
\* longest BACKEND_PORT value enumerated character by character
MaxPortLen == 4

----------------------------------------------------------------------------
(* Strings *)

None == <<>>
Some(v) == <<v>>
IsSome(o) == o # <<>>
Val(o) == o[1]

\* all strings over `chars` of length at most n
StringsUpTo(chars, n) == UNION {[1..k -> chars] : k \in 0..n}

Whitespace == {" ", "\t", "\n", "\r"}
Digits == {"0", "1", "2", "3", "4", "5", "6", "7", "8", "9"}

DigitVal(c) ==
    CASE c = "0" -> 0 [] c = "1" -> 1 [] c = "2" -> 2 [] c = "3" -> 3
      [] c = "4" -> 4 [] c = "5" -> 5 [] c = "6" -> 6 [] c = "7" -> 7
      [] c = "8" -> 8 [] c = "9" -> 9

Tail2(s, i) == SubSeq(s, i, Len(s))

\* index of the first occurrence of character c in s, 0 when there is none
RECURSIVE IndexFrom(_, _, _)
IndexFrom(s, c, i) ==
    IF i > Len(s) THEN 0
    ELSE IF s[i] = c THEN i
    ELSE IndexFrom(s, c, i + 1)

Find(s, c) == IndexFrom(s, c, 1)

RECURSIVE LStrip(_)
LStrip(s) ==
    IF s # <<>> /\ s[1] \in Whitespace THEN LStrip(Tail(s)) ELSE s

RECURSIVE RStrip(_)
RStrip(s) ==
    IF s # <<>> /\ s[Len(s)] \in Whitespace
    THEN RStrip(SubSeq(s, 1, Len(s) - 1)) ELSE s

\* str.strip()
Strip(s) == RStrip(LStrip(s))

\* a split that also strips each entry: [x.strip() for x in s.split(",")]
RECURSIVE SplitStripped(_)
SplitStripped(s) ==
    LET i == Find(s, ",")
    IN  IF i = 0 THEN <<Strip(s)>>
        ELSE <<Strip(SubSeq(s, 1, i - 1))>> \o SplitStripped(Tail2(s, i + 1))

\* str.split(","): the maximal comma-free substrings, in order, empty ones kept
RECURSIVE Split(_)
Split(s) ==
    LET i == Find(s, ",")
    IN  IF i = 0 THEN <<s>>
        ELSE <<SubSeq(s, 1, i - 1)>> \o Split(Tail2(s, i + 1))

\* str.rstrip("/")
RECURSIVE RStripSlash(_)
RStripSlash(s) ==
    IF s # <<>> /\ s[Len(s)] = "/"
    THEN RStripSlash(SubSeq(s, 1, Len(s) - 1)) ELSE s

----------------------------------------------------------------------------
(* int(str) *)

\* the digits of a literal with its underscores removed
RECURSIVE DropUnderscores(_)
DropUnderscores(s) ==
    IF s = <<>> THEN <<>>
    ELSE IF s[1] = "_" THEN DropUnderscores(Tail(s))
    ELSE <<s[1]>> \o DropUnderscores(Tail(s))

RECURSIVE DecimalValue(_)
DecimalValue(ds) ==
    IF ds = <<>> THEN 0
    ELSE 10 * DecimalValue(SubSeq(ds, 1, Len(ds) - 1)) + DigitVal(ds[Len(ds)])

\* a digit string in which single underscores may separate digits
IsDigitString(s) ==
    /\ s # <<>>
    /\ \A i \in 1..Len(s) : s[i] \in Digits \cup {"_"}
    /\ s[1] \in Digits
    /\ s[Len(s)] \in Digits
    /\ \A i \in 1..(Len(s) - 1) : ~(s[i] = "_" /\ s[i + 1] = "_")

HasSign(t) == t # <<>> /\ t[1] \in {"+", "-"}
Unsigned(t) == IF HasSign(t) THEN Tail(t) ELSE t

\* int(s) for a str s, base 10: surrounding whitespace is ignored, one
\* leading sign is accepted; [ok |-> FALSE] stands for ValueError
PyInt(s) ==
    LET t == Strip(s)
        u == Unsigned(t)
    IN  IF IsDigitString(u)
        THEN [ok  |-> TRUE,
              val |-> IF HasSign(t) /\ t[1] = "-"
                      THEN 0 - DecimalValue(DropUnderscores(u))
                      ELSE DecimalValue(DropUnderscores(u))]
        ELSE [ok |-> FALSE, val |-> 0]

----------------------------------------------------------------------------
(* Literals of main.py and of the framework defaults it relies on *)

\* "http://localhost:3000", the default of os.getenv at line 12
DefaultOrigins ==
    <<"h", "t", "t", "p", ":", "/", "/", "l", "o", "c", "a", "l", "h", "o",
      "s", "t", ":", "3", "0", "0", "0">>

\* the default of os.getenv("BACKEND_PORT", 8000) at line 32
DefaultPort == 8000

\* host="0.0.0.0" at line 32
Host == "0.0.0.0"

\* the largest port a socket address holds; bind() raises beyond it
MaxPort == 65535

\* ports the OS may hand out when asked to bind port 0
EphemeralPorts == {32768, 49152}

\* the body root() returns at line 23
WelcomeBody == [message |-> "Welcome to DeWork API"]

RootPath == <<"/">>
OpenapiPath == <<"/", "o", "p", "e", "n", "a", "p", "i", ".", "j", "s", "o", "n">>
DocsPath == <<"/", "d", "o", "c", "s">>
OAuthRedirectPath ==
    <<"/", "d", "o", "c", "s", "/", "o", "a", "u", "t", "h", "2", "-", "r",
      "e", "d", "i", "r", "e", "c", "t">>
RedocPath == <<"/", "r", "e", "d", "o", "c">>

\* the routes FastAPI() registers by itself with its default arguments
\* (openapi_url, docs_url, swagger_ui_oauth2_redirect_url, redoc_url); a
\* function endpoint added with add_route answers GET and HEAD
FrameworkRoutes ==
    << [path |-> OpenapiPath,       methods |-> {"GET", "HEAD"}, endpoint |-> "openapi"],
       [path |-> DocsPath,          methods |-> {"GET", "HEAD"}, endpoint |-> "swagger_ui_html"],
       [path |-> OAuthRedirectPath, methods |-> {"GET", "HEAD"}, endpoint |-> "swagger_ui_redirect"],
       [path |-> RedocPath,         methods |-> {"GET", "HEAD"}, endpoint |-> "redoc_html"] >>

\* @app.get("/") at line 21
RootRoute == [path |-> RootPath, methods |-> {"GET"}, endpoint |-> "root"]

\* a policy that allows every origin: allow_origins=["*"]
CorsOptionsStar(allowed) ==
    [cls               |-> "CORSMiddleware",
     allow_origins     |-> <<(<<"*">>)>>,
     allow_credentials |-> TRUE,
     allow_methods     |-> <<"*">>,
     allow_headers     |-> <<"*">>]

\* the keyword arguments of app.add_middleware at lines 13-19
CorsOptions(allowed) ==
    [cls               |-> "CORSMiddleware",
     allow_origins     |-> allowed,
     allow_credentials |-> TRUE,
     allow_methods     |-> <<"*">>,
     allow_headers     |-> <<"*">>]

----------------------------------------------------------------------------
(* The environment the process is started in *)

Keys == {"CORS_ORIGINS", "BACKEND_PORT"}

Env(c, p) == [CORS_ORIGINS |-> c, BACKEND_PORT |-> p]

OriginChars == {"a", ",", " ", "*"}
PortChars == {"7", "0", "-", " "}

TwoOrigins ==
    <<"h", "t", "t", "p", "s", ":", "/", "/", "a", ".", "c", "o", "m", ",",
      "h", "t", "t", "p", "s", ":", "/", "/", "b", ".", "c", "o", "m">>
OriginA == <<"h", "t", "t", "p", "s", ":", "/", "/", "a", ".", "c", "o", "m">>
OriginB == <<"h", "t", "t", "p", "s", ":", "/", "/", "b", ".", "c", "o", "m">>

\* values of CORS_ORIGINS and BACKEND_PORT picked by hand
SomeOrigins == {None, Some(TwoOrigins), Some(<<"*">>), Some(<<"a", ",", " ", "a">>)}
SomePorts == {None, Some(<<"7", "0", "0", "0">>), Some(<<"x">>),
              Some(<<"7", "0", "0", "0", "0">>), Some(<<"0">>)}

\* every value of CORS_ORIGINS up to MaxLen characters, and the spec's example
AllOrigins ==
    {None, Some(TwoOrigins)} \cup {Some(s) : s \in StringsUpTo(OriginChars, MaxLen)}
FewPorts == {None, Some(<<"7", "0">>), Some(<<"x">>), Some(<<"-", "7">>)}

\* every value of BACKEND_PORT up to MaxPortLen characters, and values
\* around the largest port number
AllPorts ==
    {None, Some(<<"6", "5", "5", "3", "5">>), Some(<<"6", "5", "5", "3", "6">>),
     Some(<<"7", "0", "0", "0", "0">>)}
    \cup {Some(s) : s \in StringsUpTo(PortChars, MaxPortLen)}
FewOrigins == {None, Some(<<"*">>)}

\* .env files: none (or an empty one), and one that sets both keys
DotenvFiles == {Env(None, None), Env(Some(<<"a", ",", "*">>), Some(<<"7", "7">>))}

----------------------------------------------------------------------------
(* Initial states *)

InitWith(corsValues, portValues) ==
    /\ environ \in {Env(c, p) : c \in corsValues, p \in portValues}
    /\ dotenv \in DotenvFiles
    /\ runAsMain \in BOOLEAN
    /\ bindOK \in BOOLEAN
    /\ pc = "start"
    /\ steps = <<>>
    /\ appCreated = FALSE
    /\ routes = <<>>
    /\ middleware = <<>>
    /\ origins = None
    /\ corsRead = None
    /\ portArg = None
    /\ bindAttempts = 0
    /\ listener = None
    /\ openapiCached = FALSE
    /\ request = None
    /\ response = None
    /\ exitCause = "none"

Init == InitWith(SomeOrigins, SomePorts)
InitOrigins == InitWith(AllOrigins, FewPorts)
InitPorts == InitWith(FewOrigins, AllPorts)

----------------------------------------------------------------------------
(* Bootstrap: the module's top-level statements, in program order *)

\* a lookup whose default is the empty string
GetenvNoDefault(e, key, default) == IF IsSome(e[key]) THEN Val(e[key]) ELSE <<>>

\* os.getenv(key, default) on an environment e
Getenv(e, key, default) == IF IsSome(e[key]) THEN Val(e[key]) ELSE default

\* load_dotenv() with override=False: a key of the file is set only when the
\* environment does not hold it already
Merged(e, file) ==
    [k \in Keys |-> IF IsSome(e[k]) THEN e[k] ELSE file[k]]

LoadDotenv ==
    /\ pc = "start"
    /\ environ' = Merged(environ, dotenv)
    /\ pc' = "env_loaded"
    /\ steps' = Append(steps, "load_dotenv")
    /\ UNCHANGED <<dotenv, runAsMain, bindOK, appCreated, routes, middleware,
                   origins, corsRead, portArg, bindAttempts, listener,
                   openapiCached, request, response, exitCause>>

CreateApp ==
    /\ pc = "env_loaded"
    /\ appCreated' = TRUE
    /\ routes' = FrameworkRoutes
    /\ pc' = "app_created"
    /\ steps' = Append(steps, "FastAPI")
    /\ UNCHANGED <<environ, dotenv, runAsMain, bindOK, middleware, origins,
                   corsRead, portArg, bindAttempts, listener, openapiCached,
                   request, response, exitCause>>

ComputeOrigins ==
    /\ pc = "app_created"
    /\ corsRead' = Some(Getenv(environ, "CORS_ORIGINS", DefaultOrigins))
    /\ origins' = Some(Split(Val(corsRead')))
    /\ pc' = "origins_computed"
    /\ steps' = Append(steps, "origins")
    /\ UNCHANGED <<environ, dotenv, runAsMain, bindOK, appCreated, routes,
                   middleware, portArg, bindAttempts, listener, openapiCached,
                   request, response, exitCause>>

\* add_middleware puts the new middleware in front of the list
AddCorsMiddleware ==
    /\ pc = "origins_computed"
    /\ middleware' = <<CorsOptions(Val(origins))>> \o middleware
    /\ pc' = "cors_added"
    /\ steps' = Append(steps, "add_middleware")
    /\ UNCHANGED <<environ, dotenv, runAsMain, bindOK, appCreated, routes,
                   origins, corsRead, portArg, bindAttempts, listener,
                   openapiCached, request, response, exitCause>>

RegisterRoot ==
    /\ pc = "cors_added"
    /\ routes' = Append(routes, RootRoute)
    /\ pc' = "root_registered"
    /\ steps' = Append(steps, "app.get")
    /\ UNCHANGED <<environ, dotenv, runAsMain, bindOK, appCreated, middleware,
                   origins, corsRead, portArg, bindAttempts, listener,
                   openapiCached, request, response, exitCause>>

\* the server is started without the __main__ guard
MainGuardAlways ==
    /\ pc = "root_registered"
    /\ pc' = "main"
    /\ UNCHANGED <<environ, dotenv, runAsMain, bindOK, steps, appCreated,
                   routes, middleware, origins, corsRead, portArg,
                   bindAttempts, listener, openapiCached, request, response,
                   exitCause>>

\* if __name__ == "__main__": an import ends here
MainGuard ==
    /\ pc = "root_registered"
    /\ pc' = IF runAsMain THEN "main" ELSE "imported"
    /\ UNCHANGED <<environ, dotenv, runAsMain, bindOK, steps, appCreated,
                   routes, middleware, origins, corsRead, portArg,
                   bindAttempts, listener, openapiCached, request, response,
                   exitCause>>

\* the port is always the default
PortValueDefaultOnly(e) == [ok |-> TRUE, val |-> 8000]

\* a value that does not parse falls back to the default
PortValueFallback(e) ==
    IF IsSome(e["BACKEND_PORT"]) /\ PyInt(Val(e["BACKEND_PORT"])).ok
    THEN PyInt(Val(e["BACKEND_PORT"]))
    ELSE [ok |-> TRUE, val |-> 8000]

\* int(os.getenv("BACKEND_PORT", 8000)): the default is already an int
PortValue(e) ==
    IF IsSome(e["BACKEND_PORT"]) THEN PyInt(Val(e["BACKEND_PORT"]))
    ELSE [ok |-> TRUE, val |-> DefaultPort]

\* the argument of uvicorn.run is evaluated; a ValueError is not caught and
\* ends the process
ParsePort ==
    /\ pc = "main"
    /\ steps' = Append(steps, "int")
    /\ \/ /\ PortValue(environ).ok
          /\ portArg' = Some(PortValue(environ).val)
          /\ pc' = "run"
          /\ UNCHANGED exitCause
       \/ /\ ~PortValue(environ).ok
          /\ pc' = "exited"
          /\ exitCause' = "ValueError"
          /\ UNCHANGED portArg
    /\ UNCHANGED <<environ, dotenv, runAsMain, bindOK, appCreated, routes,
                   middleware, origins, corsRead, bindAttempts, listener,
                   openapiCached, request, response>>

\* whether binding (Host, p) succeeds: the port must be a port number and the
\* OS must grant it (free address, permission)
CanBind(p) == p \in 0..MaxPort /\ bindOK

\* uvicorn.run(app, host="0.0.0.0", port=...): one bind; a failure is logged
\* and the process exits. Port 0 asks the OS for a port of its choice.
Bind ==
    /\ pc = "run"
    /\ bindAttempts' = bindAttempts + 1
    /\ steps' = Append(steps, "uvicorn.run")
    /\ \/ /\ CanBind(Val(portArg))
          /\ \E p \in (IF Val(portArg) = 0 THEN EphemeralPorts ELSE {Val(portArg)}) :
                listener' = Some([host |-> Host, port |-> p])
          /\ pc' = "serving"
          /\ UNCHANGED exitCause
       \/ /\ ~CanBind(Val(portArg))
          /\ pc' = "exited"
          /\ exitCause' = "bind"
          /\ UNCHANGED listener
    /\ UNCHANGED <<environ, dotenv, runAsMain, bindOK, appCreated, routes,
                   middleware, origins, corsRead, portArg, openapiCached,
                   request, response>>

----------------------------------------------------------------------------
(* Requests *)

DocsSlashPath == <<"/", "d", "o", "c", "s", "/">>
RedocSlashesPath == <<"/", "r", "e", "d", "o", "c", "/", "/">>
NonexistentPath == <<"/", "n", "o", "n", "e", "x", "i", "s", "t", "e", "n", "t">>

\* an origin that no enumerated CORS_ORIGINS value lists
OtherOrigin == <<"e">>

Range(seq) == {seq[i] : i \in DOMAIN seq}

Methods == {"GET", "POST", "OPTIONS"}
RequestPaths ==
    {RootPath, DocsPath, DocsSlashPath, RedocSlashesPath, OpenapiPath,
     NonexistentPath}
Queries == {"", "q=1"}
RequestedMethods == {"GET", "TRACE"}

\* Origin header values to try against a list: its entries, its entries
\* stripped, and OtherOrigin. An HTTP server hands over header values without
\* surrounding whitespace, so only such values are sent.
OriginValues(allowed) ==
    {o \in Range(allowed) \cup {Strip(x) : x \in Range(allowed)} \cup {OtherOrigin} :
        Strip(o) = o}

Req(m, p, q, o, c, a) ==
    [method |-> m, path |-> p, query |-> q, origin |-> o, cookie |-> c,
     acrm |-> a]

\* The requests sent. The headers are varied where some code reads them: Cookie
\* and Access-Control-Request-Method are read by the CORS middleware only, and
\* only on a request with an Origin header (the latter on OPTIONS only);
\* nothing reads the query string, which is varied on GET.
Requests(allowed) ==
    LET sent == {Some(o) : o \in OriginValues(allowed)}
    IN  {Req(m, p, "", None, FALSE, None) : m \in Methods, p \in RequestPaths}
        \cup {Req("GET", p, "q=1", o, c, None) :
                p \in RequestPaths, o \in sent \cup {None}, c \in BOOLEAN}
        \cup {Req(m, p, "", o, c, None) :
                m \in Methods, p \in RequestPaths, o \in sent, c \in BOOLEAN}
        \cup {Req("OPTIONS", p, "", o, c, Some(a)) :
                p \in RequestPaths, o \in sent, c \in BOOLEAN,
                a \in RequestedMethods}

Resp(st, body, by) ==
    [status |-> st, body |-> body, allowOrigin |-> None, by |-> by]

(* Routing: Starlette's Router over app.router.routes *)

\* a route whose path is a prefix of the request's path also matches
RouteMatchesPrefix(route, path) ==
    /\ Len(route.path) <= Len(path)
    /\ SubSeq(path, 1, Len(route.path)) = route.path

\* the routes here have no path parameters: a path matches when it is equal
RouteMatches(route, path) == route.path = path

\* what the endpoint of a route returns
EndpointResponse(name) ==
    CASE name = "root" -> Resp(200, WelcomeBody, "root")
      [] name = "openapi" -> Resp(200, [openapi |-> "schema"], "openapi")
      [] name = "swagger_ui_html" -> Resp(200, [html |-> "swagger-ui"], "swagger_ui_html")
      [] name = "swagger_ui_redirect" -> Resp(200, [html |-> "oauth2-redirect"], "swagger_ui_redirect")
      [] name = "redoc_html" -> Resp(200, [html |-> "redoc"], "redoc_html")

\* indexes of the routes matching the path and the method (Match.FULL), and
\* the path alone (Match.PARTIAL)
FullMatches(rs, req) ==
    {i \in DOMAIN rs : RouteMatches(rs[i], req.path) /\ req.method \in rs[i].methods}
PartialMatches(rs, req) ==
    {i \in DOMAIN rs : RouteMatches(rs[i], req.path) /\ req.method \notin rs[i].methods}

Min(S) == CHOOSE x \in S : \A y \in S : x <= y

\* redirect_slashes: the path with its trailing slashes removed, or with one
\* added
SlashTwin(path) ==
    IF path[Len(path)] = "/" THEN RStripSlash(path) ELSE Append(path, "/")

\* Router: the first full match answers; else the first partial match answers
\* 405; else a route matching the slash twin of the path redirects; else 404
Router(rs, req) ==
    IF FullMatches(rs, req) # {}
    THEN EndpointResponse(rs[Min(FullMatches(rs, req))].endpoint)
    ELSE IF PartialMatches(rs, req) # {}
    THEN Resp(405, [detail |-> "Method Not Allowed"], "method_not_allowed")
    ELSE IF /\ req.path # RootPath
            /\ \E i \in DOMAIN rs : RouteMatches(rs[i], SlashTwin(req.path))
    THEN Resp(307, [location |-> SlashTwin(req.path)], "redirect_slashes")
    ELSE Resp(404, [detail |-> "Not Found"], "not_found")

(* Starlette's CORSMiddleware *)

Star == <<"*">>
AllMethods == {"DELETE", "GET", "HEAD", "OPTIONS", "PATCH", "POST", "PUT"}

AllowAllOrigins(opts) == Star \in Range(opts.allow_origins)
AllowedMethods(opts) ==
    IF "*" \in Range(opts.allow_methods) THEN AllMethods
    ELSE Range(opts.allow_methods)

\* is_allowed_origin: everything under "*", else membership in the list
IsAllowedOrigin(opts, o) ==
    AllowAllOrigins(opts) \/ o \in Range(opts.allow_origins)

\* preflight_response: answered by the middleware itself, 200 or 400; with
\* credentials allowed the allowed origin is echoed, never "*"
Preflight(opts, req) ==
    LET o == Val(req.origin)
        originOK == IsAllowedOrigin(opts, o)
        methodOK == Val(req.acrm) \in AllowedMethods(opts)
        explicit == ~AllowAllOrigins(opts) \/ opts.allow_credentials
    IN  [status |-> IF originOK /\ methodOK THEN 200 ELSE 400,
         body |-> IF originOK /\ methodOK THEN [text |-> "OK"]
                  ELSE [text |-> "Disallowed CORS"],
         allowOrigin |-> IF ~explicit THEN Some(Star)
                         ELSE IF originOK THEN Some(o) ELSE None,
         by |-> "cors_preflight"]

\* simple_response: the inner application's response, with the allow-origin
\* header the policy gives
Simple(opts, req, inner) ==
    LET o == Val(req.origin)
    IN  [inner EXCEPT !.allowOrigin =
            IF AllowAllOrigins(opts)
            THEN (IF req.cookie THEN Some(o) ELSE Some(Star))
            ELSE IF IsAllowedOrigin(opts, o) THEN Some(o) ELSE None]

\* a middleware that refuses every request from an origin it does not allow
CorsStrict(opts, req, inner) ==
    IF req.origin = None THEN inner
    ELSE IF req.method = "OPTIONS" /\ IsSome(req.acrm) THEN Preflight(opts, req)
    ELSE IF ~IsAllowedOrigin(opts, Val(req.origin))
    THEN [status |-> 400, body |-> [text |-> "Disallowed CORS"],
          allowOrigin |-> None, by |-> "cors"]
    ELSE Simple(opts, req, inner)

\* CORSMiddleware.__call__
Cors(opts, req, inner) ==
    IF req.origin = None THEN inner
    ELSE IF req.method = "OPTIONS" /\ IsSome(req.acrm) THEN Preflight(opts, req)
    ELSE Simple(opts, req, inner)

\* the middleware stack around the router, outermost first
RECURSIVE Stack(_, _, _)
Stack(mws, rs, req) ==
    IF mws = <<>> THEN Router(rs, req)
    ELSE Cors(mws[1], req, Stack(Tail(mws), rs, req))

\* whether the request reaches the openapi endpoint, which caches the schema
ReachesOpenapi(mws, rs, req) == Stack(mws, rs, req).by = "openapi"

----------------------------------------------------------------------------
(* Serving *)

\* the effect of one request on the request, the response and the schema cache
Answer(req) ==
    /\ request' = Some(req)
    /\ response' = Some(Stack(middleware, routes, req))
    /\ openapiCached' = (openapiCached \/ ReachesOpenapi(middleware, routes, req))

\* a handler that recomputes the origins list from the environment
HandleRequestReloading ==
    /\ pc = "serving"
    /\ request = None
    /\ \E req \in Requests(Val(origins)) : Answer(req)
    /\ origins' = Some(Split(Getenv(environ, "CORS_ORIGINS", DefaultOrigins)))
    /\ UNCHANGED <<environ, dotenv, runAsMain, bindOK, pc, steps, appCreated,
                   routes, middleware, corsRead, portArg, bindAttempts,
                   listener, exitCause>>

\* a server that stops when a request is answered with an error status
HandleRequestStopping ==
    /\ pc = "serving"
    /\ request = None
    /\ \E req \in Requests(Val(origins)) :
          /\ Answer(req)
          /\ pc' = IF Stack(middleware, routes, req).status >= 400
                   THEN "exited" ELSE "serving"
    /\ UNCHANGED <<environ, dotenv, runAsMain, bindOK, steps, appCreated,
                   routes, middleware, origins, corsRead, portArg,
                   bindAttempts, listener, exitCause>>

\* one request is received and answered; the handler has no suspension point
HandleRequest ==
    /\ pc = "serving"
    /\ request = None
    /\ \E req \in Requests(Val(origins)) : Answer(req)
    /\ UNCHANGED <<environ, dotenv, runAsMain, bindOK, pc, steps, appCreated,
                   routes, middleware, origins, corsRead, portArg,
                   bindAttempts, listener, exitCause>>

\* the response has been sent; the server waits for the next request
SendResponse ==
    /\ pc = "serving"
    /\ request # None
    /\ request' = None
    /\ response' = None
    /\ UNCHANGED <<environ, dotenv, runAsMain, bindOK, pc, steps, appCreated,
                   routes, middleware, origins, corsRead, portArg,
                   bindAttempts, listener, openapiCached, exitCause>>

\* the value CORS_ORIGINS is changed to while the server runs
LaterOrigins == Some(<<"e">>)

\* os.environ["CORS_ORIGINS"] is changed after startup
SetEnv ==
    /\ pc = "serving"
    /\ environ["CORS_ORIGINS"] # LaterOrigins
    /\ environ' = [environ EXCEPT !["CORS_ORIGINS"] = LaterOrigins]
    /\ UNCHANGED <<dotenv, runAsMain, bindOK, pc, steps, appCreated, routes,
                   middleware, origins, corsRead, portArg, bindAttempts,
                   listener, openapiCached, request, response, exitCause>>

\* SIGINT or SIGTERM: uvicorn.run returns and the process ends
Terminate ==
    /\ pc = "serving"
    /\ pc' = "exited"
    /\ exitCause' = "signal"
    /\ listener' = None
    /\ request' = None
    /\ response' = None
    /\ UNCHANGED <<environ, dotenv, runAsMain, bindOK, steps, appCreated,
                   routes, middleware, origins, corsRead, portArg,
                   bindAttempts, openapiCached>>

Next ==
    \/ LoadDotenv
    \/ CreateApp
    \/ ComputeOrigins
    \/ AddCorsMiddleware
    \/ RegisterRoot
    \/ MainGuard
    \/ ParsePort
    \/ Bind
    \/ HandleRequest
    \/ SendResponse
    \/ SetEnv
    \/ Terminate

Spec == Init /\ [][Next]_vars
SpecOrigins == InitOrigins /\ [][Next]_vars
SpecPorts == InitPorts /\ [][Next]_vars

----------------------------------------------------------------------------
(* Properties *)

Answered == IsSome(request) /\ IsSome(response)
TheRequest == Val(request)
TheResponse == Val(response)
PortEnv == environ["BACKEND_PORT"]
Listed(o) == o \in Range(Val(origins))

\* a CORS preflight: OPTIONS with Origin and Access-Control-Request-Method
IsPreflight(req) ==
    req.method = "OPTIONS" /\ IsSome(req.origin) /\ IsSome(req.acrm)

\* C1: once serving, every GET / is answered 200 with the body
\* {"message": "Welcome to DeWork API"}, whatever its Origin, Cookie and
\* query string; no GET / gets an error response.
C1_GetRootWelcome ==
    (IsSome(request) /\ TheRequest.method = "GET" /\ TheRequest.path = <<"/">>)
        => /\ IsSome(response)
           /\ TheResponse.status = 200
           /\ TheResponse.body = [message |-> "Welcome to DeWork API"]

\* GET /?q=1 from an origin that is not listed, with a cookie, answered 200
C1_Witness ==
    /\ Answered
    /\ TheRequest.method = "GET" /\ TheRequest.path = <<"/">>
    /\ TheRequest.query = "q=1" /\ TheRequest.cookie
    /\ TheRequest.origin = Some(OtherOrigin) /\ ~Listed(OtherOrigin)
    /\ TheResponse.status = 200

\* C2 as stated: for every origins list, "*" entries included, a response to
\* a request with an Origin header carries an allow-origin header exactly
\* when that origin is an element of the list.
C2_AllowOriginIffListed ==
    (Answered /\ IsSome(TheRequest.origin))
        => (IsSome(TheResponse.allowOrigin) <=> Listed(Val(TheRequest.origin)))

\* C2 amended: when no entry of the list is "*", a response to a request with
\* an Origin header carries the allow-origin header (with that origin as its
\* value) exactly when the origin is an element of the list, entries being
\* compared as they are, whitespace included; when an entry is "*", every
\* such response carries an allow-origin header.
C2_AllowOriginIffListedUnlessStar ==
    (Answered /\ IsSome(TheRequest.origin))
        => IF <<"*">> \in Range(Val(origins))
           THEN IsSome(TheResponse.allowOrigin)
           ELSE /\ IsSome(TheResponse.allowOrigin) <=> Listed(Val(TheRequest.origin))
                /\ IsSome(TheResponse.allowOrigin)
                      => TheResponse.allowOrigin = TheRequest.origin

\* the list holds " a" and not "a" nor "*": a request from "a" gets no header
C2_Witness ==
    /\ Answered
    /\ TheRequest.origin = Some(<<"a">>)
    /\ <<" ", "a">> \in Range(Val(origins))
    /\ ~Listed(<<"a">>) /\ ~Listed(<<"*">>)
    /\ TheResponse.allowOrigin = None

CountCommas(s) == Cardinality({i \in DOMAIN s : s[i] = ","})

RECURSIVE JoinCommas(_)
JoinCommas(l) ==
    IF Len(l) = 0 THEN <<>>
    ELSE IF Len(l) = 1 THEN l[1]
    ELSE l[1] \o <<",">> \o JoinCommas(Tail(l))

\* C3: for every value s of CORS_ORIGINS the bootstrap does not fail and the
\* origins list is the sequence of maximal comma-free substrings of s in
\* order: no entry holds a comma, there are (commas of s) + 1 entries,
\* joining them with "," gives s back (so nothing is trimmed, dropped or
\* deduplicated), and "https://a.com,https://b.com" gives the two URLs.
C3_OriginsAreCommaFreePieces ==
    /\ pc = "origins_computed" /\ IsSome(environ["CORS_ORIGINS"])
          => corsRead = environ["CORS_ORIGINS"]
    /\ IsSome(origins)
          => /\ Len(Val(origins)) = CountCommas(Val(corsRead)) + 1
             /\ \A i \in DOMAIN Val(origins) : CountCommas(Val(origins)[i]) = 0
             /\ JoinCommas(Val(origins)) = Val(corsRead)
             /\ Val(corsRead) = TwoOrigins => Val(origins) = <<OriginA, OriginB>>
    /\ pc \in {"origins_computed", "cors_added", "root_registered"}
          => exitCause = "none"
    /\ pc = "exited" => Len(steps) >= 6

\* CORS_ORIGINS=" ,," gives [" ", "", ""]: whitespace, empty entries and
\* duplicates are kept, and the middleware is registered with that list
C3_Witness ==
    /\ pc = "cors_added"
    /\ corsRead = Some(<<" ", ",", ",">>)
    /\ origins = Some(<< <<" ">>, <<>>, <<>> >>)

\* C4: when CORS_ORIGINS is unset as the origins list is computed, the list is
\* exactly ["http://localhost:3000"].
C4_DefaultOrigins ==
    (pc = "origins_computed" /\ environ["CORS_ORIGINS"] = None)
        => origins = Some(<< <<"h", "t", "t", "p", ":", "/", "/", "l", "o",
                               "c", "a", "l", "h", "o", "s", "t", ":", "3",
                               "0", "0", "0">> >>)

\* the list has just been computed with CORS_ORIGINS unset
C4_Witness ==
    /\ pc = "origins_computed"
    /\ environ["CORS_ORIGINS"] = None
    /\ Len(Val(origins)) = 1

\* the startup of the main program is over: it serves, or it failed
StartupOver ==
    runAsMain /\ (pc = "serving" \/ (pc = "exited" /\ exitCause # "signal"))

\* C5 as stated: as the main program, for every BACKEND_PORT that is a valid
\* integer string the listener is bound to exactly that port on 0.0.0.0, and
\* to 8000 when BACKEND_PORT is unset. The statement is read in its favour:
\* only with the OS granting the bind, and with port 0 bound to the port the
\* OS chooses.
C5_BindsEveryIntegerPort ==
    (StartupOver /\ bindOK)
        => /\ PortEnv = None => listener = Some([host |-> "0.0.0.0", port |-> 8000])
           /\ (IsSome(PortEnv) /\ PyInt(Val(PortEnv)).ok)
                 => /\ IsSome(listener)
                    /\ Val(listener).host = "0.0.0.0"
                    /\ \/ Val(listener).port = PyInt(Val(PortEnv)).val
                       \/ PyInt(Val(PortEnv)).val = 0

\* C5 amended: as the main program, for every BACKEND_PORT that is a valid
\* integer string with a value from 1 to 65535 the server binds exactly that
\* port on 0.0.0.0, and 8000 when BACKEND_PORT is unset, and serves when the
\* OS grants the bind; for the value 0 the OS chooses the port; for a value
\* below 0 or above 65535 the bind fails and the process exits.
C5_BindsPortInRange ==
    /\ (StartupOver /\ bindOK)
        => /\ PortEnv = None
                 => listener = Some([host |-> "0.0.0.0", port |-> 8000])
           /\ (IsSome(PortEnv) /\ PyInt(Val(PortEnv)).ok)
                 => LET v == PyInt(Val(PortEnv)).val
                    IN  /\ v \in 1..65535
                              => /\ pc = "serving"
                                 /\ listener = Some([host |-> "0.0.0.0", port |-> v])
                        /\ v = 0
                              => /\ pc = "serving"
                                 /\ Val(listener).host = "0.0.0.0"
                                 /\ Val(listener).port \in 1..65535
                        /\ v \notin 0..65535
                              => /\ pc = "exited" /\ exitCause = "bind"
                                 /\ listener = None
           /\ PortEnv = Some(<<"7", "0", "0", "0">>) => Val(listener).port = 7000
           /\ PortEnv = Some(<<" ", "7", "0">>) => Val(listener).port = 70
           /\ PortEnv = Some(<<"6", "5", "5", "3", "5">>) => Val(listener).port = 65535
    /\ ~runAsMain => listener = None

\* BACKEND_PORT=" 70": the main program serves on port 70
C5_Witness ==
    /\ pc = "serving" /\ runAsMain
    /\ PortEnv = Some(<<" ", "7", "0">>)
    /\ listener = Some([host |-> "0.0.0.0", port |-> 70])

\* C6 as stated: every request to a path other than "/" is answered 404.
C6_OtherPathsNotFound ==
    (Answered /\ TheRequest.path # <<"/">>) => TheResponse.status = 404

\* the path, with any "/" at its end removed, is one of the paths
\* /openapi.json, /docs, /docs/oauth2-redirect, /redoc
IsFrameworkPath(p) ==
    LET own == {<<"/", "o", "p", "e", "n", "a", "p", "i", ".", "j", "s", "o", "n">>,
                <<"/", "d", "o", "c", "s">>,
                <<"/", "d", "o", "c", "s", "/", "o", "a", "u", "t", "h", "2",
                  "-", "r", "e", "d", "i", "r", "e", "c", "t">>,
                <<"/", "r", "e", "d", "o", "c">>}
        RECURSIVE cut(_)
        cut(q) == IF q # <<>> /\ q[Len(q)] = "/"
                  THEN cut(SubSeq(q, 1, Len(q) - 1)) ELSE q
    IN  cut(p) \in own

\* C6 amended: every request that is not a CORS preflight, to a path that is
\* neither "/" nor a path of the framework's own routes (/openapi.json,
\* /docs, /docs/oauth2-redirect, /redoc) nor one of these followed by "/"s,
\* is answered 404 by the default handler, never by root(), for every
\* configuration and header set, and changes nothing of the server's state.
C6_UndefinedPathsNotFound ==
    [][(/\ request = None /\ IsSome(request')
        /\ ~IsPreflight(Val(request'))
        /\ Val(request').path # <<"/">>
        /\ ~IsFrameworkPath(Val(request').path))
          => /\ Val(response').status = 404
             /\ Val(response').by = "not_found"
             /\ Val(response').body = [detail |-> "Not Found"]
             /\ UNCHANGED <<environ, pc, routes, middleware, origins, portArg,
                            listener, openapiCached, bindAttempts, exitCause>>]_vars

\* POST /nonexistent with a cookie, from an origin that is not listed: 404
C6_Witness ==
    /\ Answered
    /\ TheRequest.method = "POST"
    /\ TheRequest.path = NonexistentPath
    /\ TheRequest.origin = Some(OtherOrigin) /\ TheRequest.cookie
    /\ TheResponse.status = 404

\* C7: a startup failure is fatal and not retried: with a BACKEND_PORT that
\* int() rejects, or a port that cannot be bound, the main program exits, is
\* never serving, answers no request, and binds at most once.
C7_StartupFailureFatal ==
    /\ (runAsMain /\ Len(steps) >= 6 /\ IsSome(PortEnv) /\ ~PyInt(Val(PortEnv)).ok)
          => /\ pc = "exited" /\ exitCause = "ValueError"
             /\ bindAttempts = 0 /\ listener = None /\ portArg = None
             /\ request = None /\ response = None /\ ~openapiCached
    /\ (runAsMain /\ Len(steps) >= 6
          /\ PortEnv \in {Some(<<"7", "-">>), Some(<<"7", " ", "7">>),
                          Some(<<>>), Some(<<"-">>), Some(<<"x">>)})
          => pc = "exited" /\ exitCause = "ValueError"
    /\ (bindAttempts >= 1 /\ ~(Val(portArg) \in 0..65535 /\ bindOK))
          => /\ pc = "exited" /\ exitCause = "bind"
             /\ listener = None
             /\ request = None /\ response = None /\ ~openapiCached
    /\ bindAttempts <= 1
    /\ (pc = "exited" /\ exitCause # "signal") => ~ENABLED Next

\* BACKEND_PORT="7 7": the main program has exited on the conversion
C7_Witness ==
    /\ runAsMain
    /\ PortEnv = Some(<<"7", " ", "7">>)
    /\ pc = "exited" /\ exitCause = "ValueError"
    /\ bindAttempts = 0

\* C8: the origins list is computed once and never changes afterwards; while
\* serving, no request, in any sequence, and no later change of CORS_ORIGINS
\* changes the origins list, the middleware, the route table or the bound
\* port.
C8_ConfigFrozen ==
    [][/\ IsSome(origins) => origins' = origins /\ corsRead' = corsRead
       /\ pc = "serving"
            => /\ routes' = routes
               /\ middleware' = middleware
               /\ portArg' = portArg
               /\ pc' = "serving" => listener' = listener]_vars

\* CORS_ORIGINS was changed to "e" while serving, and a request from "e" is
\* still answered without an allow-origin header
C8_Witness ==
    /\ Answered
    /\ environ["CORS_ORIGINS"] = Some(<<"e">>)
    /\ corsRead # Some(<<"e">>)
    /\ TheRequest.origin = Some(<<"e">>)
    /\ TheResponse.allowOrigin = None

\* C9: after a successful bootstrap the server is serving and stays so: no
\* request moves it out of serving; serving ends only by a signal.
C9_ServingUntilSignal ==
    [][/\ (pc = "run" /\ IsSome(listener')) => pc' = "serving"
       /\ (pc = "serving" /\ pc' # "serving")
             => exitCause = "none" /\ exitCause' = "signal"
       /\ (pc = "serving" /\ IsSome(request')) => pc' = "serving"]_vars

\* a second request is answered (404) after GET /openapi.json was
C9_Witness ==
    /\ pc = "serving"
    /\ openapiCached
    /\ Answered
    /\ TheRequest.path = NonexistentPath
    /\ TheResponse.status = 404

BootstrapOrder ==
    <<"load_dotenv", "FastAPI", "origins", "add_middleware", "app.get", "int",
      "uvicorn.run">>

\* C10: the bootstrap statements run in the order load_dotenv, FastAPI(),
\* origins, add_middleware, app.get("/"), and only then, and only in the main
\* program, int(BACKEND_PORT) and the bind; no request is answered and no
\* listener exists before the CORS middleware and the root route are in
\* place; an import never parses BACKEND_PORT and never fails on it.
C10_BootstrapOrder ==
    /\ Len(steps) <= Len(BootstrapOrder)
    /\ steps = SubSeq(BootstrapOrder, 1, Len(steps))
    /\ (IsSome(listener) \/ IsSome(response) \/ pc = "serving")
          => /\ Len(middleware) = 1
             /\ middleware[1].allow_origins = Val(origins)
             /\ \E i \in DOMAIN routes :
                   routes[i].path = <<"/">> /\ routes[i].endpoint = "root"
    /\ ~runAsMain
          => /\ Len(steps) <= 5
             /\ pc # "exited" /\ exitCause = "none"
             /\ portArg = None /\ bindAttempts = 0 /\ listener = None

\* the module was imported with BACKEND_PORT="x": the import is complete
C10_Witness ==
    /\ ~runAsMain
    /\ pc = "imported"
    /\ PortEnv = Some(<<"x">>)
    /\ Len(steps) = 5

====
